---------------------------- MODULE Spec2Model ----------------------------
(***************************************************************************)
(* A model of the PDF sanitization worker of cleanpdf.org                  *)
(* (src/src/workers/pdf.worker.ts) and of the uploader that runs it        *)
(* (src/src/components/PDFUploader.tsx).                                   *)
(*                                                                         *)
(* A byte buffer is a sequence of one-character strings, one per byte      *)
(* (bytesToString maps byte k to the character with code k, so offsets in  *)
(* the string are offsets in the buffer).  The source counts offsets from  *)
(* 0, sequences here count from 1: every position of the model is the      *)
(* source's offset plus one.  A match is [index, end): index is its first  *)
(* position and end the position after its last, as RegExp.lastIndex is.   *)
(***************************************************************************)
EXTENDS Integers, Sequences, FiniteSets, TLC

VARIABLES
    \* a byte-level run, and a second one on its output
    pdfBytes,       \* the buffer handed to the sanitizer
    options,        \* CleaningOptions, or NoOptions before a request
    pass,           \* byte-level runs done on pdfBytes: 0, 1 or 2
    cleaned,        \* result.cleaned of the first byte-level run
    itemsRemoved,   \* result.itemsRemoved of the first byte-level run
    warning,        \* result.warning of the first byte-level run
    cleaned2,       \* result.cleaned of a second run, on `cleaned`
    itemsRemoved2,  \* result.itemsRemoved of the second run
    \* the worker handling one message (pdfBytes and options as above)
    file,           \* e.data.file: the bytes arrayBuffer() reads
    pc,             \* where self.onmessage and cleanPDF stand
    pdfDoc,         \* the document PDFDocument.load returned, as mutated
    docItems,       \* cleanPDF's itemsRemoved
    warnings,       \* cleanPDF's warnings
    savedPdfBytes,  \* cleanPDF's variable savedPdfBytes
    savedBuffer,    \* the array pdfDoc.save() resolved with, as it is now
    pdfLibError,    \* the message of the error caught in cleanPDF
    error,          \* the message of the error caught in self.onmessage
    result,         \* what cleanPDF returned to self.onmessage
    posted,         \* the messages given to self.postMessage, in order
    \* the uploader component
    files,          \* the state `files`: the selected File objects
    processing,     \* the state `processing`
    progress,       \* the state `progress`, in units of 1 / ProgressScale
    cleanedPdfUrls, \* the state `cleanedPdfUrls`: the published results
    batches         \* the calls of processPDF so far, with their workers

bytesVars == <<pass, cleaned, itemsRemoved, warning, cleaned2, itemsRemoved2>>

workerVars == <<file, pc, pdfDoc, docItems, warnings, savedPdfBytes,
                savedBuffer, pdfLibError, error, result, posted>>

sanitizerVars == <<pdfBytes, options, bytesVars, workerVars>>

uploaderVars == <<files, processing, progress, cleanedPdfUrls, batches>>

vars == <<sanitizerVars, uploaderVars>>

---------------------------------------------------------------------------
(* Bounds of the model.                                                    *)

\* The longest input, in fragments of a vocabulary (see Inputs).
MaxFrags == 4

---------------------------------------------------------------------------
(* Characters and the regular-expression building blocks.                  *)

Max(S) == CHOOSE x \in S : \A y \in S : y <= x

Min(S) == CHOOSE x \in S : \A y \in S : x <= y

\* What \s matches among the byte values 0..255 the model's buffers hold.
WS == {" ", "\t", "\n", "\f", "\r"}

\* \d
Digits == {"0", "1", "2", "3", "4", "5", "6", "7", "8", "9"}

Quotes == {"\"", "'"}

\* The i flag: two characters match when their lower-case forms agree.
ToLower ==
    [c \in {"A","B","C","D","E","F","G","H","I","J","K","L","M","N","O","P",
            "Q","R","S","T","U","V","W","X","Y","Z"} |->
      CASE c = "A" -> "a" [] c = "B" -> "b" [] c = "C" -> "c" [] c = "D" -> "d"
        [] c = "E" -> "e" [] c = "F" -> "f" [] c = "G" -> "g" [] c = "H" -> "h"
        [] c = "I" -> "i" [] c = "J" -> "j" [] c = "K" -> "k" [] c = "L" -> "l"
        [] c = "M" -> "m" [] c = "N" -> "n" [] c = "O" -> "o" [] c = "P" -> "p"
        [] c = "Q" -> "q" [] c = "R" -> "r" [] c = "S" -> "s" [] c = "T" -> "t"
        [] c = "U" -> "u" [] c = "V" -> "v" [] c = "W" -> "w" [] c = "X" -> "x"
        [] c = "Y" -> "y" [] c = "Z" -> "z"]

Lower(c) == IF c \in DOMAIN ToLower THEN ToLower[c] ELSE c

\* The literal lit stands at position i of s.
LitAt(s, i, lit) ==
    /\ i >= 1
    /\ i + Len(lit) - 1 <= Len(s)
    /\ \A k \in 1..Len(lit) : s[i + k - 1] = lit[k]

\* The same under the i flag (lit is given in lower case).
LitAtI(s, i, lit) ==
    /\ i >= 1
    /\ i + Len(lit) - 1 <= Len(s)
    /\ \A k \in 1..Len(lit) : Lower(s[i + k - 1]) = lit[k]

\* A greedy C*: the first position from i on whose character is not in C.
RECURSIVE SkipIn(_, _, _)
SkipIn(s, i, C) ==
    IF i <= Len(s) /\ s[i] \in C THEN SkipIn(s, i + 1, C) ELSE i

\* A greedy [^C]*: the first position from i on whose character is in C.
RECURSIVE SkipNotIn(_, _, _)
SkipNotIn(s, i, C) ==
    IF i <= Len(s) /\ s[i] \notin C THEN SkipNotIn(s, i + 1, C) ELSE i

\* String.includes on the positions lo..hi of s.
IncludesIn(s, lo, hi, lit) ==
    \E p \in lo..(hi - Len(lit) + 1) : LitAt(s, p, lit)

\* The successive matches of a g-flag pattern's exec loop: ends[i] is the
\* end of the match at i (0: none) and hits the positions with a match;
\* each search takes the first hit at or after lastIndex, the last end.
RECURSIVE ExecFrom(_, _, _)
ExecFrom(ends, hits, lastIndex) ==
    LET next == {h \in hits : h >= lastIndex}
    IN  IF next = {} THEN <<>>
        ELSE LET i == Min(next)
             IN  <<[index |-> i, end |-> ends[i]]>> \o ExecFrom(ends, hits, ends[i])

ExecAll(ends, n) ==
    LET hits == {h \in 1..n : ends[h] # 0}
    IN  IF hits = {} THEN <<>> ELSE ExecFrom(ends, hits, 1)

---------------------------------------------------------------------------
(* findProtectedStreams and isProtected.                                   *)

\* /stream\s*\r?\n/ at i: \s* gives back up to the last newline of the
\* whitespace run.
StreamPatternEnd(s, i) ==
    IF ~LitAt(s, i, <<"s","t","r","e","a","m">>) THEN 0
    ELSE LET w  == SkipIn(s, i + 6, WS)
             nl == {j \in (i + 6)..(w - 1) : s[j] = "\n"}
         IN  IF nl = {} THEN 0 ELSE Max(nl) + 1

\* The index of the first /endstream/ at or after `from` (0: none).
EndstreamIndex(s, from) ==
    LET hits == {j \in from..Len(s) : LitAt(s, j, <<"e","n","d","s","t","r","e","a","m">>)}
    IN  IF hits = {} THEN 0 ELSE Min(hits)

\* The look-back and look-ahead window of the classification.
ClassifyWindow == 500

\* String.trim().startsWith(lit) on the positions lo..hi of s.
TrimStartsWith(s, lo, hi, lit) ==
    LET p == SkipIn(s, lo, WS)
    IN  p + Len(lit) - 1 <= hi /\ LitAt(s, p, lit)

\* A variant of StreamSubtype that looks at 100 bytes before the stream and
\* at its first 100 content bytes.
StreamSubtypeShortWindows(s, start, end) ==
    LET lo   == IF start - 100 > 1 THEN start - 100 ELSE 1
        hi   == start - 1
        chi  == (IF start + 100 < end THEN start + 100 ELSE end) - 1
        isXFA == \/ IncludesIn(s, lo, hi, <<"/","S","u","b","t","y","p","e"," ","/","X","M","L">>)
                 \/ IncludesIn(s, lo, hi, <<"/","X","F","A">>)
                 \/ IncludesIn(s, lo, hi, <<"/","A","c","r","o","F","o","r","m">>)
        isMetadata == IncludesIn(s, lo, hi, <<"/","M","e","t","a","d","a","t","a">>)
        contentStartsWithXML ==
                 \/ TrimStartsWith(s, start, chi, <<"<","?","x","m","l">>)
                 \/ TrimStartsWith(s, start, chi, <<"<","x","d","p",":","x","d","p">>)
                 \/ TrimStartsWith(s, start, chi, <<"<","t","e","m","p","l","a","t","e">>)
                 \/ IncludesIn(s, start, chi, <<"<","x",":","x","m","p","m","e","t","a">>)
                 \/ IncludesIn(s, start, chi, <<"<","r","d","f",":","R","D","F">>)
    IN  IF isXFA \/ contentStartsWithXML THEN "XML"
        ELSE IF isMetadata THEN "Metadata"
        ELSE "undefined"

\* The subtype given to the stream range [start, end).
StreamSubtype(s, start, end) ==
    LET lo   == IF start - ClassifyWindow > 1 THEN start - ClassifyWindow ELSE 1
        hi   == start - 1
        chi  == (IF start + ClassifyWindow < end
                 THEN start + ClassifyWindow ELSE end) - 1
        isXFA == \/ IncludesIn(s, lo, hi, <<"/","S","u","b","t","y","p","e"," ","/","X","M","L">>)
                 \/ IncludesIn(s, lo, hi, <<"/","X","F","A">>)
                 \/ IncludesIn(s, lo, hi, <<"/","A","c","r","o","F","o","r","m">>)
        isMetadata == \/ IncludesIn(s, lo, hi, <<"/","T","y","p","e"," ","/","M","e","t","a","d","a","t","a">>)
                      \/ IncludesIn(s, lo, hi, <<"/","M","e","t","a","d","a","t","a">>)
        contentStartsWithXML ==
                 \/ TrimStartsWith(s, start, chi, <<"<","?","x","m","l">>)
                 \/ TrimStartsWith(s, start, chi, <<"<","x","d","p",":","x","d","p">>)
                 \/ TrimStartsWith(s, start, chi, <<"<","t","e","m","p","l","a","t","e">>)
                 \/ IncludesIn(s, start, chi, <<"<","x",":","x","m","p","m","e","t","a">>)
                 \/ IncludesIn(s, start, chi, <<"<","r","d","f",":","R","D","F">>)
    IN  IF isXFA \/ contentStartsWithXML THEN "XML"
        ELSE IF isMetadata THEN "Metadata"
        ELSE "undefined"

\* The ranges, in the order of their stream keywords.
findProtectedStreams(s) ==
    LET n       == Len(s)
        starts  == ExecAll([i \in 1..n |-> StreamPatternEnd(s, i)], n)
        matched == SelectSeq(starts, LAMBDA m : EndstreamIndex(s, m.end) # 0)
    IN  [k \in 1..Len(matched) |->
           LET start == matched[k].end
               end   == EndstreamIndex(s, start)
           IN  [start |-> start, end |-> end,
                subtype |-> StreamSubtype(s, start, end)]]

isProtected(pos, ranges) ==
    \E k \in 1..Len(ranges) :
        /\ pos >= ranges[k].start
        /\ pos < ranges[k].end
        /\ ranges[k].subtype = "undefined"

---------------------------------------------------------------------------
(* The patterns of cleanPDFBytes.  Each operator gives the end of the      *)
(* pattern's match at position i of s, or 0 when it does not match there.  *)

\* <<[^>]*>> at i.
DictEnd(s, i) ==
    IF ~LitAt(s, i, <<"<","<">>) THEN 0
    ELSE LET g == SkipNotIn(s, i + 2, {">"})
         IN  IF LitAt(s, g, <<">",">">>) THEN g + 2 ELSE 0

\* \d+\s+\d+\s+R at i.
RefEnd(s, i) ==
    LET d1 == SkipIn(s, i, Digits)
        w1 == SkipIn(s, d1, WS)
        d2 == SkipIn(s, w1, Digits)
        w2 == SkipIn(s, d2, WS)
    IN  IF d1 > i /\ w1 > d1 /\ d2 > w1 /\ w2 > d2 /\ LitAt(s, w2, <<"R">>)
        THEN w2 + 1 ELSE 0

\* /\/OpenAction\s*(<<[^>]*>>|\d+\s+\d+\s+R)/g
openActionPattern(s, i) ==
    IF ~LitAt(s, i, <<"/","O","p","e","n","A","c","t","i","o","n">>) THEN 0
    ELSE LET j == SkipIn(s, i + 11, WS)
         IN  IF DictEnd(s, j) # 0 THEN DictEnd(s, j) ELSE RefEnd(s, j)

\* /\/AA\s*<<[^>]*>>/g
aaPattern(s, i) ==
    IF ~LitAt(s, i, <<"/","A","A">>) THEN 0
    ELSE DictEnd(s, SkipIn(s, i + 3, WS))

\* \/JavaScript\s*<<[^>]*>> at p.
JavaScriptDictEnd(s, p) ==
    IF ~LitAt(s, p, <<"/","J","a","v","a","S","c","r","i","p","t">>) THEN 0
    ELSE DictEnd(s, SkipIn(s, p + 11, WS))

\* /\/Names\s*<<[^>]*\/JavaScript\s*<<[^>]*>>/g: the greedy [^>]* gives
\* back to the last /JavaScript of its run that completes the match.
namesJsPattern(s, i) ==
    IF ~LitAt(s, i, <<"/","N","a","m","e","s">>) THEN 0
    ELSE LET j == SkipIn(s, i + 6, WS)
         IN  IF ~LitAt(s, j, <<"<","<">>) THEN 0
             ELSE LET g  == SkipNotIn(s, j + 2, {">"})
                      ps == {p \in (j + 2)..g : JavaScriptDictEnd(s, p) # 0}
                  IN  IF ps = {} THEN 0 ELSE JavaScriptDictEnd(s, Max(ps))

\* /\/XFA\s*\d+\s+\d+\s+R/g
xfaPattern(s, i) ==
    IF ~LitAt(s, i, <<"/","X","F","A">>) THEN 0
    ELSE RefEnd(s, SkipIn(s, i + 4, WS))

\* attr\s*=\s*["'][^"']*http[^"']*["'][^>]*> at p, under the i flag.
HttpAttrEnd(s, p, attr) ==
    IF ~LitAtI(s, p, attr) THEN 0
    ELSE LET q == SkipIn(s, p + Len(attr), WS)
         IN  IF ~LitAt(s, q, <<"=">>) THEN 0
             ELSE LET o == SkipIn(s, q + 1, WS)
                  IN  IF ~(o <= Len(s) /\ s[o] \in Quotes) THEN 0
                      ELSE LET c == SkipNotIn(s, o + 1, Quotes)
                               g == SkipNotIn(s, c + 1, {">"})
                           IN  IF /\ c <= Len(s)
                                  /\ \E h \in (o + 1)..(c - 4) : LitAtI(s, h, <<"h","t","t","p">>)
                                  /\ g <= Len(s)
                               THEN g + 1 ELSE 0

\* /<tag[^>]*attr\s*=\s*["'][^"']*http[^"']*["'][^>]*>/gi, tag and attr in
\* lower case: the greedy [^>]* gives back to the last attr that completes
\* the match.
xfaUrlPattern(s, i, tag, attr) ==
    IF ~LitAtI(s, i, tag) THEN 0
    ELSE LET a  == i + Len(tag)
             g  == SkipNotIn(s, a, {">"})
             ps == {p \in a..g : HttpAttrEnd(s, p, attr) # 0}
         IN  IF ps = {} THEN 0 ELSE HttpAttrEnd(s, Max(ps), attr)

\* /<tag[\s\S]*?>/gi: the lazy run stops at the first '>'.
submitOpenPattern(s, i, tag) ==
    IF ~LitAtI(s, i, tag) THEN 0
    ELSE LET g == SkipNotIn(s, i + Len(tag), {">"})
         IN  IF g <= Len(s) THEN g + 1 ELSE 0

\* /<\/submit>/gi and /<\/xdp:submit>/gi
submitClosePattern(s, i, tag) ==
    IF LitAtI(s, i, tag) THEN i + Len(tag) ELSE 0

\* href\s*=\s*["'][^"']*["'][^>]*\?> at p, under the i flag.
HrefAttrEnd(s, p) ==
    IF ~LitAtI(s, p, <<"h","r","e","f">>) THEN 0
    ELSE LET q == SkipIn(s, p + 4, WS)
         IN  IF ~LitAt(s, q, <<"=">>) THEN 0
             ELSE LET o == SkipIn(s, q + 1, WS)
                  IN  IF ~(o <= Len(s) /\ s[o] \in Quotes) THEN 0
                      ELSE LET c == SkipNotIn(s, o + 1, Quotes)
                               g == SkipNotIn(s, c + 1, {">"})
                           IN  IF /\ c <= Len(s)
                                  /\ g <= Len(s)
                                  /\ g - 1 >= c + 1
                                  /\ s[g - 1] = "?"
                               THEN g + 1 ELSE 0

\* /<\?xml-stylesheet[^>]*href\s*=\s*["'][^"']*["'][^>]*\?>/gi
stylesheetPattern(s, i) ==
    IF ~LitAtI(s, i, <<"<","?","x","m","l","-","s","t","y","l","e","s","h","e","e","t">>) THEN 0
    ELSE LET a  == i + 16
             g  == SkipNotIn(s, a, {">"})
             ps == {p \in a..g : HrefAttrEnd(s, p) # 0}
         IN  IF ps = {} THEN 0 ELSE HrefAttrEnd(s, Max(ps))

\* The action types of STEP 5, in the order of the source's array.
AllActionTypes ==
    << <<"/","U","R","I">>, <<"/","L","a","u","n","c","h">>, <<"/","G","o","T","o","R">>, <<"/","G","o","T","o","E">>, <<"/","S","u","b","m","i","t","F","o","r","m">>,
       <<"/","I","m","p","o","r","t","D","a","t","a">>, <<"/","J","a","v","a","S","c","r","i","p","t">> >>

\* The names the descriptors give them: actionType.replace('/', '').
ActionTypeName ==
    << "URI", "Launch", "GoToR", "GoToE", "SubmitForm", "ImportData",
       "JavaScript" >>

\* The end of the group (\/S\s+) at i: match[1] is s[i..that - 1].
ActionPrefixEnd(s, i) ==
    IF ~LitAt(s, i, <<"/","S">>) THEN 0
    ELSE LET w == SkipIn(s, i + 2, WS)
         IN  IF w > i + 2 THEN w ELSE 0

\* new RegExp(`(\\/S\\s+)${actionType}`, 'g')
actionPattern(s, i, actionType) ==
    LET w == ActionPrefixEnd(s, i)
    IN  IF w # 0 /\ LitAt(s, w, actionType) THEN w + Len(actionType) ELSE 0

\* /\/JS\s*\([^)]*\)[\s\r\n]*/gi
jsPattern(s, i) ==
    IF ~LitAtI(s, i, <<"/","j","s">>) THEN 0
    ELSE LET j == SkipIn(s, i + 3, WS)
         IN  IF ~LitAt(s, j, <<"(">>) THEN 0
             ELSE LET c == SkipNotIn(s, j + 1, {")"})
                  IN  IF c <= Len(s) THEN SkipIn(s, c + 1, WS) ELSE 0

\* https?:\/\/[^stop]+ at i, under the i flag.
HttpUrlEnd(s, i, stop) ==
    IF ~LitAtI(s, i, <<"h","t","t","p">>) THEN 0
    ELSE LET c == IF i + 4 <= Len(s) /\ Lower(s[i + 4]) = "s" /\ LitAt(s, i + 5, <<":","/","/">>)
                  THEN i + 8
                  ELSE IF LitAt(s, i + 4, <<":","/","/">>) THEN i + 7 ELSE 0
         IN  IF c = 0 THEN 0
             ELSE LET e == SkipNotIn(s, c, stop)
                  IN  IF e > c THEN e ELSE 0

\* /\\\\+https?:\/\/[^\s"'>]+/gi: two or more backslashes, then a URL.
uncUrlPattern(s, i) ==
    IF ~LitAt(s, i, <<"\\","\\">>) THEN 0
    ELSE HttpUrlEnd(s, SkipIn(s, i, {"\\"}), WS \cup {"\"", "'", ">"})

\* /https?:\/\/[^\s"'>\)]+/gi
urlPattern(s, i) ==
    HttpUrlEnd(s, i, WS \cup {"\"", "'", ">", ")"})

\* /https?:\/\/[^\s"'>]+/gi, the pattern of the replace inside an XFA tag.
tagUrlPattern(s, i) ==
    HttpUrlEnd(s, i, WS \cup {"\"", "'", ">"})

\* /\/AcroForm\s*<<[^>]*>>/g
acroFormPattern(s, i) ==
    IF ~LitAt(s, i, <<"/","A","c","r","o","F","o","r","m">>) THEN 0
    ELSE DictEnd(s, SkipIn(s, i + 9, WS))

---------------------------------------------------------------------------
(* cleanPDFBytes.                                                          *)

\* The successive matches in s of a pattern, as the while/exec loops see
\* them; ends[i] is the end of the pattern's match at i (0: none).
MatchesOf(s, ends) == ExecAll(ends, Len(s))

\* Those whose first byte is not protected (the guard of every rule).
Unprotected(ms, ranges) ==
    SelectSeq(ms, LAMBDA m : ~isProtected(m.index, ranges))

\* n spaces (byte 32).
Spaces(n) == [k \in 1..n |-> " "]

\* The loop "i < replacement.length ? replacement[i] : 32" over a span of n
\* bytes: the replacement cut or padded with spaces to exactly n bytes.
PadTo(replacement, n) ==
    [k \in 1..n |-> IF k <= Len(replacement) THEN replacement[k] ELSE " "]

\* 'about:blank', padded with spaces while it is shorter than the URL, then
\* .substring(0, url.length).
PadUrl(n) ==
    LET about  == <<"a","b","o","u","t",":","b","l","a","n","k">>
        padded == IF Len(about) < n THEN about \o Spaces(n - Len(about)) ELSE about
    IN  SubSeq(padded, 1, n)

\* A variant of WriteBytes that inserts the bytes before the span instead of
\* overwriting it.
WriteInserting(buf, index, bytes) ==
    SubSeq(buf, 1, index - 1) \o bytes \o SubSeq(buf, index, Len(buf))

\* The loop "cleaned[index + i] = bytes[i]" for i < Len(bytes) on the
\* Uint8Array: the elements it reaches are set, the array keeps its length
\* (an index past its end sets nothing).
WriteBytes(buf, index, bytes) ==
    [k \in 1..Len(buf) |->
       IF k >= index /\ k < index + Len(bytes) THEN bytes[k - index + 1]
       ELSE buf[k]]

\* One write per match, in order: [index, bytes, item]; bytes[k] are the
\* bytes written over match k.
WritesOf(ms, bytes, item) ==
    [k \in 1..Len(ms) |->
       [index |-> ms[k].index, bytes |-> bytes[k], item |-> item]]

\* The writes done one after the other on the working copy.
RECURSIVE ApplyWrites(_, _, _)
ApplyWrites(buf, writes, k) ==
    IF k > Len(writes) THEN buf
    ELSE ApplyWrites(WriteBytes(buf, writes[k].index, writes[k].bytes),
                     writes, k + 1)

\* String.replace with a g-flag pattern: the text from pos on, each match
\* ms[k], ms[k+1], ... replaced by reps[k], reps[k+1], ...
RECURSIVE ReplaceFrom(_, _, _, _, _)
ReplaceFrom(s, ms, reps, k, pos) ==
    IF k > Len(ms) THEN SubSeq(s, pos, Len(s))
    ELSE SubSeq(s, pos, ms[k].index - 1) \o reps[k]
         \o ReplaceFrom(s, ms, reps, k + 1, ms[k].end)

\* match[0].replace(/https?:\/\/[^\s"'>]+/gi, url => padded about:blank)
ReplaceTagUrls(tag) ==
    LET ms == MatchesOf(tag, [i \in 1..Len(tag) |-> tagUrlPattern(tag, i)])
    IN  ReplaceFrom(tag, ms, [k \in 1..Len(ms) |-> PadUrl(ms[k].end - ms[k].index)],
                    1, 1)

\* The concatenation of a sequence of sequences.
RECURSIVE Flatten(_)
Flatten(ss) ==
    IF ss = <<>> THEN <<>> ELSE Head(ss) \o Flatten(Tail(ss))

\* result.warning: warnings.join('; ') || undefined, with nothing ever pushed.
NoWarning == "undefined"

\* The tag names of xfaUrlPatterns and submitTagPatterns.
SubmitTag == <<"<","s","u","b","m","i","t">>

XdpSubmitTag == <<"<","x","d","p",":","s","u","b","m","i","t">>

\* The number of bytes looked at before a URL for an xmlns marker.
XmlnsWindow == 30

\* beforeUrl.includes('xmlns=') || beforeUrl.includes('xmlns:')
IsXmlnsUrl(s, index) ==
    LET lo == IF index - XmlnsWindow > 1 THEN index - XmlnsWindow ELSE 1
    IN  \/ IncludesIn(s, lo, index - 1, <<"x","m","l","n","s","=">>)
        \/ IncludesIn(s, lo, index - 1, <<"x","m","l","n","s",":">>)

\* The UNC loop: every unprotected match is blanked and counted.
UncWrites(s, ranges) ==
    LET ms == Unprotected(MatchesOf(s, [i \in 1..Len(s) |-> uncUrlPattern(s, i)]),
                          ranges)
    IN  WritesOf(ms, [k \in 1..Len(ms) |-> Spaces(ms[k].end - ms[k].index)], "")

\* The URL loop: every unprotected match without an xmlns marker in the
\* bytes before it is overwritten with the padded 'about:blank' and counted.
UrlWrites(s, ranges) ==
    LET ms == SelectSeq(Unprotected(MatchesOf(s, [i \in 1..Len(s) |-> urlPattern(s, i)]),
                                    ranges),
                        LAMBDA m : ~IsXmlnsUrl(s, m.index))
    IN  WritesOf(ms, [k \in 1..Len(ms) |-> PadUrl(ms[k].end - ms[k].index)], "")

\* The writes of each rule on s were its option on, in match order.  The
\* patterns run on pdfStr, the snapshot taken before the first write, so no
\* rule's matches depend on the options or on another rule's writes.
RuleWrites(s) ==
    LET ranges == findProtectedStreams(s)
        \* the unprotected matches of a pattern
        Matches(P(_, _)) ==
            Unprotected(MatchesOf(s, [i \in 1..Len(s) |-> P(s, i)]), ranges)
        \* a rule's loop: Bytes(m) written over each match m
        Rule(P(_, _), Bytes(_), item) ==
            LET ms == Matches(P)
            IN  WritesOf(ms, [k \in 1..Len(ms) |-> Bytes(ms[k])], item)
        Blanked(P(_, _), item) ==
            Rule(P, LAMBDA m : Spaces(m.end - m.index), item)
        XfaUrl(P(_, _)) ==
            Rule(P, LAMBDA m : ReplaceTagUrls(SubSeq(s, m.index, m.end - 1)),
                 "Removed XFA URL (byte-level)")
    IN  [ \* STEP 1
          openAction |-> Blanked(openActionPattern, "Removed OpenAction (byte-level)"),
          \* STEP 2
          aa |-> Blanked(aaPattern, "Removed Additional Actions (byte-level)"),
          \* STEP 3: '/Names<<>>', the rest filled with spaces
          namesJs |->
            Rule(namesJsPattern,
                 LAMBDA m : PadTo(<<"/","N","a","m","e","s","<","<",">",">">>, m.end - m.index),
                 "Removed JavaScript name tree (byte-level)"),
          \* STEP 4: /XFA references, then the four xfaUrlPatterns, then the
          \* four submitTagPatterns, then the stylesheets
          forms |->
            Blanked(xfaPattern, "Removed XFA form reference (byte-level)")
            \o XfaUrl(LAMBDA t, i : xfaUrlPattern(t, i, SubmitTag, <<"t","a","r","g","e","t">>))
            \o XfaUrl(LAMBDA t, i : xfaUrlPattern(t, i, SubmitTag, <<"h","r","e","f">>))
            \o XfaUrl(LAMBDA t, i : xfaUrlPattern(t, i, XdpSubmitTag, <<"t","a","r","g","e","t">>))
            \o XfaUrl(LAMBDA t, i : xfaUrlPattern(t, i, XdpSubmitTag, <<"h","r","e","f">>))
            \o Blanked(LAMBDA t, i : submitOpenPattern(t, i, SubmitTag),
                       "Removed XDP submit tag (byte-level)")
            \o Blanked(LAMBDA t, i : submitClosePattern(t, i, <<"<","/","s","u","b","m","i","t",">">>),
                       "Removed XDP submit tag (byte-level)")
            \o Blanked(LAMBDA t, i : submitOpenPattern(t, i, XdpSubmitTag),
                       "Removed XDP submit tag (byte-level)")
            \o Blanked(LAMBDA t, i : submitClosePattern(t, i, <<"<","/","x","d","p",":","s","u","b","m","i","t",">">>),
                       "Removed XDP submit tag (byte-level)")
            \o Blanked(stylesheetPattern, "Removed XML stylesheet (byte-level)"),
          \* STEP 5, per action type: prefix + '/Next ', cut or padded to
          \* the length of the match
          actions |->
            [a \in 1..Len(AllActionTypes) |->
               Rule(LAMBDA t, i : actionPattern(t, i, AllActionTypes[a]),
                    LAMBDA m : PadTo(SubSeq(s, m.index, ActionPrefixEnd(s, m.index) - 1)
                                     \o <<"/","N","e","x","t"," ">>, m.end - m.index),
                    "Neutralized " \o ActionTypeName[a] \o " action (byte-level)")],
          \* STEP 6: '/JS()', the rest filled with spaces
          js |->
            Rule(jsPattern,
                 LAMBDA m : PadTo(<<"/","J","S","(",")">>, m.end - m.index),
                 "Removed JavaScript code (byte-level)"),
          \* STEP 7: UNC paths, then regular URLs (counted, not described)
          unc |-> UncWrites(s, ranges),
          url |-> UrlWrites(s, ranges),
          \* STEP 8
          acroForm |-> Blanked(acroFormPattern, "Removed AcroForm (byte-level)") ]

\* The descriptors pushed by a run of writes.
ItemsOf(writes) == [k \in 1..Len(writes) |-> writes[k].item]

\* A variant of UrlItems that reports the URL loops only when they counted
\* more than one URL.
UrlItemsWhenSeveral(urlCount, where) ==
    IF urlCount > 1
    THEN << "Removed " \o ToString(urlCount) \o " external URLs " \o where >>
    ELSE <<>>

\* The aggregate descriptor of the URL loops, pushed when urlCount > 0.
UrlItems(urlCount, where) ==
    IF urlCount > 0
    THEN << "Removed " \o ToString(urlCount) \o " external URLs " \o where >>
    ELSE <<>>

\* The action types STEP 5 goes through: all seven with removeLinks, else
\* '/JavaScript' alone.
ActiveActionTypes(o) ==
    IF o.removeLinks THEN [a \in 1..Len(AllActionTypes) |-> a]
    ELSE << Len(AllActionTypes) >>

\* A variant of GivenAfterWrites in which `cleaned` shares the buffer of the
\* array it was made from, so that the writes show in that array.
GivenAfterWritesShared(given, written) == written

\* const cleaned = new Uint8Array(pdfBytes): made from a typed array, the new
\* array has a buffer of its own.  `written` is that copy after the writes;
\* the value is what the array it was made from holds then.
GivenAfterWrites(given, written) == given

\* cleanPDFBytes on s with the rule writes w of s: the steps the options
\* turn on, in the order of the source.
cleanPDFBytesWith(s, o, w) ==
    LET before ==
            w.openAction
            \o (IF o.removeJavascript \/ o.removeLinks THEN w.aa ELSE <<>>)
            \o (IF o.removeJavascript THEN w.namesJs ELSE <<>>)
            \o (IF o.removeForms THEN w.forms ELSE <<>>)
            \o Flatten([t \in 1..Len(ActiveActionTypes(o)) |->
                          w.actions[ActiveActionTypes(o)[t]]])
            \o (IF o.removeJavascript THEN w.js ELSE <<>>)
        urls  == IF o.removeLinks THEN w.unc \o w.url ELSE <<>>
        after == IF o.removeForms THEN w.acroForm ELSE <<>>
    IN  [cleaned      |-> ApplyWrites(s, before \o urls \o after, 1),
         itemsRemoved |-> ItemsOf(before) \o UrlItems(Len(urls), "(byte-level)")
                          \o ItemsOf(after),
         warning      |-> NoWarning]

cleanPDFBytes(s, o) == cleanPDFBytesWith(s, o, RuleWrites(s))

---------------------------------------------------------------------------
(* The inputs of the model.                                                *)

Options ==
    [removeLinks : BOOLEAN, removeForms : BOOLEAN, removeJavascript : BOOLEAN]

NoOptions == "none"

\* Vocabularies of PDF and XFA fragments; an input is the concatenation of
\* at most MaxFrags fragments of one vocabulary.
Vocabularies ==
    { \* streams, a catalog key, a URL
      { <<"s","t","r","e","a","m","\n">>, <<"e","n","d","s","t","r","e","a","m">>, <<"h","t","t","p",":","/","/","a">>, <<"/","O","p","e","n","A","c","t","i","o","n","<","<">>, <<">",">">> },
      \* an XML namespace declaration in pieces, next to an /AA dictionary
      { <<"x","m","l","n","s","=">>, <<"\"","h","t","t","p",":","/","/","a","\"">>, <<" ">>, <<"/","A","A","<","<">>, <<">",">">> },
      \* an XFA submit element
      { <<"<","s","u","b","m","i","t"," ">>, <<"x","m","l","n","s",":","x","=","\"","h","t","t","p",":","/","/","a","\"">>, <<"t","a","r","g","e","t","=","\"","h","t","t","p",":","/","/","b","\"">>, <<">">>,
        <<"<","/","s","u","b","m","i","t",">">> },
      \* actions and scripts
      { <<"/","S"," ","/","U","R","I"," ">>, <<"/","S"," ","/","J","a","v","a","S","c","r","i","p","t">>, <<"/","J","S","(","a",")"," ">>, <<"/","N","a","m","e","s","<","<","/","J","a","v","a","S","c","r","i","p","t","<","<">>,
        <<">",">">> },
      \* forms, a stylesheet and a UNC path
      { <<"/","X","F","A"," ","1"," ","0"," ","R">>, <<"/","A","c","r","o","F","o","r","m","<","<">>, <<">",">">>,
        <<"<","?","x","m","l","-","s","t","y","l","e","s","h","e","e","t"," ","h","r","e","f","=","\"","a","\"","?",">">>, <<"\\","\\","h","t","t","p",":","/","/","a"," ">> },
      \* keywords at the end of a line, an empty script, a dictionary
      \* between two streams
      { <<"s","t","r","e","a","m","\n">>, <<"s","t","r","e","a","m","\r","\n">>, <<"e","n","d","s","t","r","e","a","m","\n">>, <<"/","A","A","<","<",">",">">>, <<"/","J","S","(",")">> } }

Inputs ==
    UNION { { Flatten(fs) : fs \in UNION { [1..k -> V] : k \in 0..MaxFrags } }
            : V \in Vocabularies }

---------------------------------------------------------------------------
(* The byte-level sanitizer run on an input, and again on its own output.  *)

\* No message has been delivered to the worker.
NoError == "none"

WorkerIdle ==
    /\ file = <<>>
    /\ pc = "idle"
    /\ pdfDoc = <<>>
    /\ docItems = <<>>
    /\ warnings = <<>>
    /\ savedPdfBytes = <<>>
    /\ savedBuffer = <<>>
    /\ pdfLibError = NoError
    /\ error = NoError
    /\ result = <<>>
    /\ posted = <<>>

\* The uploader as it is mounted: the initial values of its useState calls.
UploaderIdle ==
    /\ files = <<>>
    /\ processing = FALSE
    /\ progress = 0
    /\ cleanedPdfUrls = <<>>
    /\ batches = <<>>

InitBytes ==
    /\ pdfBytes \in Inputs
    /\ options = NoOptions
    /\ pass = 0
    /\ cleaned = <<>>
    /\ itemsRemoved = <<>>
    /\ warning = NoWarning
    /\ cleaned2 = <<>>
    /\ itemsRemoved2 = <<>>
    /\ WorkerIdle
    /\ UploaderIdle

\* cleanPDFBytes(pdfBytes, options)
CleanBytes ==
    /\ pass = 0
    /\ \E w \in {RuleWrites(pdfBytes)}, o \in Options :
         \E r \in {cleanPDFBytesWith(pdfBytes, o, w)} :
            /\ options' = o
            /\ cleaned' = r.cleaned
            /\ itemsRemoved' = r.itemsRemoved
            /\ warning' = r.warning
            /\ pdfBytes' = GivenAfterWrites(pdfBytes, r.cleaned)
    /\ pass' = 1
    /\ UNCHANGED <<cleaned2, itemsRemoved2, workerVars, uploaderVars>>

\* cleanPDFBytes(cleaned, options): the output sanitized again.
CleanAgain ==
    /\ pass = 1
    /\ \E r \in {cleanPDFBytes(cleaned, options)} :
         /\ cleaned2' = r.cleaned
         /\ itemsRemoved2' = r.itemsRemoved
    /\ pass' = 2
    /\ UNCHANGED <<pdfBytes, options, cleaned, itemsRemoved, warning, workerVars, uploaderVars>>

\* One byte-level run on each input.
NextBytes == CleanBytes

SpecBytes == InitBytes /\ [][NextBytes]_vars

\* Two byte-level runs: the second on the output of the first.
NextTwice == CleanBytes \/ CleanAgain

SpecTwice == InitBytes /\ [][NextTwice]_vars


---------------------------------------------------------------------------
(* Inputs long enough for the windows of the stream classification.        *)

\* Bytes without meaning: with the four bytes of /XFA before them and the
\* stream keyword and its line end after them they fill the look-back
\* window exactly.
Filler == [k \in 1..(ClassifyWindow - 11) |-> "x"]

StreamVocabularies ==
    { \* markers before a stream that holds a URL
      { <<"/","X","F","A">>, <<"/","M","e","t","a","d","a","t","a">>, Filler, <<"s","t","r","e","a","m","\n","h","t","t","p",":","/","/","a"," ","e","n","d","s","t","r","e","a","m">> },
      \* markers in the content of a stream
      { <<"s","t","r","e","a","m","\n">>, Filler, <<"<","?","x","m","l"," ","h","t","t","p",":","/","/","a"," ">>, <<"<","r","d","f",":","R","D","F",">","e","n","d","s","t","r","e","a","m">> } }

\* The most fillers in an input: one puts a marker at the edge of a window,
\* more put it far outside.
MaxFillers == 1

\* The inputs with a stream keyword in them.
StreamInputs ==
    UNION { { Flatten(fs) :
                fs \in { f \in UNION { [1..k -> V] : k \in 0..MaxFrags } :
                            /\ Cardinality({ i \in DOMAIN f : f[i] = Filler })
                                  <= MaxFillers
                            /\ \E i \in DOMAIN f : LitAt(f[i], 1, <<"s","t","r","e","a","m">>) } }
            : V \in StreamVocabularies }

InitStreams ==
    /\ pdfBytes \in StreamInputs
    /\ options = NoOptions
    /\ pass = 0
    /\ cleaned = <<>>
    /\ itemsRemoved = <<>>
    /\ warning = NoWarning
    /\ cleaned2 = <<>>
    /\ itemsRemoved2 = <<>>
    /\ WorkerIdle
    /\ UploaderIdle

\* One byte-level run on each of the long inputs.
SpecStreams == InitStreams /\ [][NextBytes]_vars

---------------------------------------------------------------------------
(* The objects pdf-lib hands to cleanPDF.  A dictionary is a function from *)
(* its keys; a reference carries the object the context resolves it to.    *)

Undefined == [tag |-> "undefined"]

PDFName(n) == [tag |-> "PDFName", name |-> n]

PDFString(chars) == [tag |-> "PDFString", text |-> chars]

PDFDict(map) == [tag |-> "PDFDict", dict |-> map]

PDFArray(items) == [tag |-> "PDFArray", array |-> items]

PDFRef(obj) == [tag |-> "PDFRef", object |-> obj]

\* if (value): every PDF object is truthy, undefined is not.
Truthy(value) == value.tag # "undefined"

isPDFRef(value) == value.tag = "PDFRef"

isPDFDict(value) == value.tag = "PDFDict"

isPDFArray(value) == value.tag = "PDFArray"

\* context.lookup(ref), undefined when it throws or finds nothing.
safeLookup(ref) == ref.object

\* dict.get(PDFName.of(key)): the raw entry, a reference left unresolved.
Get(d, key) == IF key \in DOMAIN d.dict THEN d.dict[key] ELSE Undefined

\* dict.delete(PDFName.of(key))
Delete(d, key) == PDFDict([k \in DOMAIN d.dict \ {key} |-> d.dict[k]])

\* dict.set(PDFName.of(key), value)
Set(d, key, value) ==
    PDFDict([k \in DOMAIN d.dict \cup {key} |->
               IF k = key THEN value ELSE d.dict[k]])

\* s?.toString() of an entry read as a name: '/URI', ..., or undefined.
NameOf(value) ==
    IF value.tag = "PDFName" THEN value.name
    ELSE IF value.tag = "undefined" THEN "undefined"
    ELSE "other"

\* d.toString() of a destination.
TextOf(value) == IF value.tag = "PDFString" THEN value.text ELSE <<>>

\* The action types that always leave the document.
ExternalActions ==
    {"/URI", "/Launch", "/GoToR", "/GoToE", "/SubmitForm", "/ImportData"}

---------------------------------------------------------------------------
(* cleanPDF, the structural path.  A step returns what it leaves of the    *)
(* object it works on and the descriptors it pushes; `broken` names the    *)
(* try block in which the document makes pdf-lib throw, if any.            *)

NotBroken == [site |-> "none", page |-> 0, annot |-> 0]

\* A variant of RemoveOpenAction that removes the entry whenever one of the
\* two options is set, without looking at what it is.
RemoveOpenActionUnclassified(catalog, o) ==
    IF Truthy(Get(catalog, "OpenAction")) /\ (o.removeJavascript \/ o.removeLinks)
    THEN [catalog |-> Delete(catalog, "OpenAction"),
          items |-> << "Removed OpenAction" >>]
    ELSE [catalog |-> catalog, items |-> <<>>]

\* STEP 1: remove /OpenAction
RemoveOpenAction(catalog, o) ==
    LET openAction == Get(catalog, "OpenAction")
        sName == NameOf(Get(openAction, "S"))
        shouldRemove ==
            IF isPDFDict(openAction)
            THEN \/ o.removeJavascript /\ sName = "/JavaScript"
                 \/ o.removeLinks /\ sName \in ExternalActions
            ELSE isPDFRef(openAction) /\ (o.removeJavascript \/ o.removeLinks)
    IN  IF Truthy(openAction) /\ shouldRemove
        THEN [catalog |-> Delete(catalog, "OpenAction"),
              items |-> << "Removed OpenAction" >>]
        ELSE [catalog |-> catalog, items |-> <<>>]

\* STEP 2: remove /AA, whatever the options
RemoveAA(catalog, o) ==
    IF Truthy(Get(catalog, "AA"))
    THEN [catalog |-> Delete(catalog, "AA"),
          items |-> << "Removed document Additional Actions" >>]
    ELSE [catalog |-> catalog, items |-> <<>>]

\* STEP 3: remove /Names/JavaScript
RemoveNamesJavaScript(catalog, o) ==
    LET names == Get(catalog, "Names")
    IN  IF /\ o.removeJavascript
           /\ isPDFDict(names)
           /\ Truthy(Get(names, "JavaScript"))
        THEN [catalog |-> Set(catalog, "Names", Delete(names, "JavaScript")),
              items |-> << "Removed JavaScript name tree" >>]
        ELSE [catalog |-> catalog, items |-> <<>>]

\* STEP 4: remove /AcroForm
RemoveAcroForm(catalog, o) ==
    IF o.removeForms /\ Truthy(Get(catalog, "AcroForm"))
    THEN [catalog |-> Delete(catalog, "AcroForm"),
          items |-> << "Removed AcroForm" >>]
    ELSE [catalog |-> catalog, items |-> <<>>]

\* A catalog step inside its try block: `after` is what the step leaves,
\* and when the document makes it throw the catch logs and the catalog is
\* as before.
TryStep(site, broken, catalog, after) ==
    IF broken.site = site THEN [catalog |-> catalog, items |-> <<>>]
    ELSE after

\* STEPS 1 to 4 in order.
CleanCatalog(catalog, o, broken) ==
    LET s1 == TryStep("OpenAction", broken, catalog, RemoveOpenAction(catalog, o))
        s2 == TryStep("AA", broken, s1.catalog, RemoveAA(s1.catalog, o))
        s3 == TryStep("Names/JavaScript", broken, s2.catalog,
                      RemoveNamesJavaScript(s2.catalog, o))
        s4 == TryStep("AcroForm", broken, s3.catalog, RemoveAcroForm(s3.catalog, o))
    IN  [catalog |-> s4.catalog,
         items |-> s1.items \o s2.items \o s3.items \o s4.items]

\* The check of a Link annotation's action; a throw inside it is caught and
\* leaves isExternal false.
IsExternal(action, throws) ==
    LET sName == NameOf(Get(action, "S"))
        d == Get(action, "D")
    IN  /\ ~throws
        /\ isPDFDict(action)
        /\ \/ sName \in ExternalActions
           \/ /\ sName = "/GoTo"
              /\ Truthy(d)
              /\ \/ IncludesIn(TextOf(d), 1, Len(TextOf(d)), <<"h","t","t","p",":","/","/">>)
                 \/ IncludesIn(TextOf(d), 1, Len(TextOf(d)), <<"h","t","t","p","s",":","/","/">>)
                 \/ IncludesIn(TextOf(d), 1, Len(TextOf(d)), <<"f","t","p",":","/","/">>)

\* One entry of an /Annots array: what it adds to newAnnots and to
\* itemsRemoved.  site "annotation" throws at the top of the entry's try
\* block, site "link action" inside the check of the action.
CleanAnnotation(annotRef, o, site) ==
    LET annot == IF isPDFRef(annotRef) THEN safeLookup(annotRef) ELSE annotRef
        subtypeName == NameOf(Get(annot, "Subtype"))
        action == Get(annot, "A")
        link == /\ o.removeLinks
                /\ subtypeName = "/Link"
                /\ Truthy(action)
                /\ IsExternal(action, site = "link action")
        widget == o.removeForms /\ subtypeName = "/Widget"
    IN  IF site = "annotation" \/ ~isPDFDict(annot)
        THEN [kept |-> <<>>, items |-> <<>>]
        ELSE [kept  |-> IF link \/ widget THEN <<>>
                        ELSE IF isPDFRef(annotRef) THEN << annotRef >>
                        ELSE << PDFRef(annot) >>,
              items |-> (IF link THEN << "Removed external link annotation" >>
                         ELSE <<>>)
                        \o (IF widget THEN << "Removed form widget annotation" >>
                            ELSE <<>>)]

\* /Annots given as one reference: a Link goes whatever its action is.
CleanSingleAnnotation(annots, o) ==
    LET annot == safeLookup(annots)
        subtypeName == NameOf(Get(annot, "Subtype"))
        link == o.removeLinks /\ subtypeName = "/Link"
        widget == o.removeForms /\ subtypeName = "/Widget"
    IN  IF ~isPDFDict(annot) THEN [kept |-> <<>>, items |-> <<>>]
        ELSE [kept  |-> IF link \/ widget THEN <<>> ELSE << annots >>,
              items |-> (IF link THEN << "Removed link annotation" >> ELSE <<>>)
                        \o (IF widget THEN << "Removed form widget annotation" >>
                            ELSE <<>>)]

\* A variant of CleanAnnots without the try block around one entry of the
\* array: an entry that throws ends the loop, and the page's /Annots stays
\* as it was.
CleanAnnotsAborting(node, o, i, broken) ==
    LET annots == Get(node, "Annots")
        each == [j \in 1..Len(annots.array) |->
                   CleanAnnotation(annots.array[j], o, "none")]
        rebuilt ==
            IF isPDFArray(annots)
            THEN [kept  |-> Flatten([j \in 1..Len(each) |-> each[j].kept]),
                  items |-> Flatten([j \in 1..Len(each) |-> each[j].items])]
            ELSE IF isPDFRef(annots) THEN CleanSingleAnnotation(annots, o)
            ELSE [kept |-> <<>>, items |-> <<>>]
    IN  IF (broken.site \in {"annotations", "annotation", "link action"}
              /\ broken.page = i)
           \/ ~Truthy(annots)
        THEN [node |-> node, items |-> <<>>]
        ELSE [node |-> Set(node, "Annots", PDFArray(rebuilt.kept)),
              items |-> rebuilt.items]

\* The annotations of page i: /Annots is set to the rebuilt array whenever
\* the page has the entry.
CleanAnnots(node, o, i, broken) ==
    LET annots == Get(node, "Annots")
        SiteOf(j) == IF broken.page = i /\ broken.annot = j THEN broken.site
                     ELSE "none"
        each == [j \in 1..Len(annots.array) |->
                   CleanAnnotation(annots.array[j], o, SiteOf(j))]
        rebuilt ==
            IF isPDFArray(annots)
            THEN [kept  |-> Flatten([j \in 1..Len(each) |-> each[j].kept]),
                  items |-> Flatten([j \in 1..Len(each) |-> each[j].items])]
            ELSE IF isPDFRef(annots) THEN CleanSingleAnnotation(annots, o)
            ELSE [kept |-> <<>>, items |-> <<>>]
    IN  IF (broken.site = "annotations" /\ broken.page = i) \/ ~Truthy(annots)
        THEN [node |-> node, items |-> <<>>]
        ELSE [node |-> Set(node, "Annots", PDFArray(rebuilt.kept)),
              items |-> rebuilt.items]

\* Page i: its /AA goes whatever the options, then its annotations.
CleanPage(node, o, i, broken) ==
    LET aa == IF (broken.site = "page AA" /\ broken.page = i)
                 \/ ~Truthy(Get(node, "AA"))
              THEN [node |-> node, items |-> <<>>]
              ELSE [node |-> Delete(node, "AA"),
                    items |-> << "Removed page Additional Actions" >>]
        an == CleanAnnots(aa.node, o, i, broken)
    IN  [node |-> an.node, items |-> aa.items \o an.items]

\* STEP 5 when getPages() returns: every page in turn.
CleanPages(pages, o, broken) ==
    LET each == [i \in 1..Len(pages) |-> CleanPage(pages[i], o, i, broken)]
    IN  [pages |-> [i \in 1..Len(pages) |-> each[i].node],
         items |-> Flatten([i \in 1..Len(pages) |-> each[i].items])]

\* warnings.join('; ')
RECURSIVE Join(_)
Join(ws) ==
    IF Len(ws) = 0 THEN ""
    ELSE IF Len(ws) = 1 THEN ws[1]
    ELSE ws[1] \o "; " \o Join(Tail(ws))

\* A variant of FallbackReturn that keeps the descriptors the structural
\* path had pushed before it failed.
FallbackReturnKeepingItems(r, message) ==
    [blob |-> r.cleaned,
     itemsRemoved |-> docItems \o r.itemsRemoved,
     warning |-> IF r.warning # NoWarning THEN r.warning
                 ELSE "Used byte-level fallback: " \o message]

\* A variant of FallbackReturn that returns the sanitizer's warning alone.
FallbackReturnWithoutWarning(r, message) ==
    [blob |-> r.cleaned,
     itemsRemoved |-> r.itemsRemoved,
     warning |-> r.warning]

\* What the catch of cleanPDF returns: r is the byte-level sanitizer's
\* result and message the caught error's.
FallbackReturn(r, message) ==
    [blob |-> r.cleaned,
     itemsRemoved |-> r.itemsRemoved,
     warning |-> IF r.warning # NoWarning THEN r.warning
                 ELSE "Used byte-level fallback: " \o message]

\* A variant of FailureResponse that reports what cleanPDF had collected.
FailureResponseKeepingItems(bytes, message) ==
    [success |-> TRUE,
     blob |-> bytes,
     itemsRemoved |-> docItems,
     warning |-> "Could not clean PDF: " \o message]

\* What the catch of self.onmessage posts: the bytes read again from the
\* file, nothing removed, the caught error's message.
FailureResponse(bytes, message) ==
    [success |-> TRUE,
     blob |-> bytes,
     itemsRemoved |-> <<>>,
     warning |-> "Could not clean PDF: " \o message]

\* STEP 7, the final URL cleanup of the saved bytes: the two URL loops of
\* the byte-level sanitizer; the copy replaces the saved bytes when a URL
\* was counted.
FinalCleanup(saved) ==
    LET ranges == findProtectedStreams(saved)
        writes == UncWrites(saved, ranges) \o UrlWrites(saved, ranges)
        urlCount == Len(writes)
    IN  [savedPdfBytes |-> IF urlCount > 0 THEN ApplyWrites(saved, writes, 1)
                           ELSE saved,
         given |-> GivenAfterWrites(saved, ApplyWrites(saved, writes, 1)),
         items |-> UrlItems(urlCount, "from final PDF")]

---------------------------------------------------------------------------
(* The files, documents and failures the worker is run on.                 *)

\* The bytes of the files sent to the worker.
SampleFiles ==
    { [bytes |-> <<"/","O","p","e","n","A","c","t","i","o","n","<","<","/","S"," ","/","J","a","v","a","S","c","r","i","p","t",">",">"," ","h","t","t","p",":","/","/","a">>],
      [bytes |-> <<"s","t","r","e","a","m","\n","h","t","t","p",":","/","/","a","e","n","d","s","t","r","e","a","m">>],
      [bytes |-> <<"%","P","D","F","-","1",".","4">>] }

\* An external Link, a Link with an internal destination, a Widget.
UriLink ==
    PDFDict([Subtype |-> PDFName("/Link"),
             A |-> PDFDict([S |-> PDFName("/URI")])])

GoToLink(dest) ==
    PDFDict([Subtype |-> PDFName("/Link"),
             A |-> PDFDict([S |-> PDFName("/GoTo"), D |-> PDFString(dest)])])

Widget == PDFDict([Subtype |-> PDFName("/Widget")])

EmptyDict == PDFDict([k \in {} |-> Undefined])

\* The documents PDFDocument.load returns: catalog and page nodes.
SampleDocs ==
    << \* every catalog entry the steps look at, one page with an array of
       \* annotations
       [catalog |-> PDFDict([OpenAction |-> PDFDict([S |-> PDFName("/JavaScript")]),
                             AA |-> EmptyDict,
                             Names |-> PDFDict([JavaScript |-> EmptyDict]),
                             AcroForm |-> EmptyDict]),
        pages |-> << PDFDict([AA |-> EmptyDict,
                              Annots |-> PDFArray(<< PDFRef(UriLink), PDFRef(Widget),
                                                     GoToLink(<<"c","h","a","p","t","e","r","1">>) >>)]) >>],
       \* catalog entries and /Annots given as references
       [catalog |-> PDFDict([OpenAction |-> PDFRef(EmptyDict),
                             Names |-> PDFRef(PDFDict([JavaScript |-> EmptyDict]))]),
        pages |-> << PDFDict([Annots |->
                        PDFRef(PDFArray(<< PDFRef(UriLink),
                                           PDFRef(GoToLink(<<"c","h","a","p","t","e","r","1">>)) >>))]),
                     PDFDict([Annots |-> PDFRef(GoToLink(<<"c","h","a","p","t","e","r","1">>))]) >>],
       \* an internal OpenAction and links by destination
       [catalog |-> PDFDict([OpenAction |-> PDFDict([S |-> PDFName("/GoTo")])]),
        pages |-> << PDFDict([Annots |->
                        PDFArray(<< PDFRef(GoToLink(<<"h","t","t","p",":","/","/","a">>)),
                                    PDFRef(PDFDict([Subtype |-> PDFName("/Link"),
                                                    A |-> PDFRef(PDFDict([S |-> PDFName("/URI")]))])),
                                    PDFRef(Undefined) >>)]) >>],
       \* nothing to remove
       [catalog |-> EmptyDict, pages |-> << EmptyDict >>],
       \* an OpenAction that launches a program
       [catalog |-> PDFDict([OpenAction |-> PDFDict([S |-> PDFName("/Launch")])]),
        pages |-> << >>],
       \* an OpenAction given as a destination array
       [catalog |-> PDFDict([OpenAction |-> PDFArray(<< PDFName("/Fit") >>)]),
        pages |-> << EmptyDict >>] >>

\* The try blocks of the structural path a document can make throw in (one
\* at most per document).
BrokenSites ==
    { NotBroken,
      [site |-> "OpenAction", page |-> 0, annot |-> 0],
      [site |-> "AA", page |-> 0, annot |-> 0],
      [site |-> "Names/JavaScript", page |-> 0, annot |-> 0],
      [site |-> "AcroForm", page |-> 0, annot |-> 0],
      [site |-> "getPages", page |-> 0, annot |-> 0],
      [site |-> "page AA", page |-> 1, annot |-> 0],
      [site |-> "annotations", page |-> 1, annot |-> 0],
      [site |-> "annotation", page |-> 1, annot |-> 1],
      [site |-> "link action", page |-> 1, annot |-> 1] }

\* The bytes pdfDoc.save() returns.
SavedSamples ==
    { <<"%","P","D","F","-","1",".","4"," ","h","t","t","p",":","/","/","a">>,
      <<"%","P","D","F","-","1",".","4"," ","x","m","l","n","s","=","\"","h","t","t","p",":","/","/","a","\"">> }

---------------------------------------------------------------------------
(* self.onmessage and cleanPDF, one step per await and per stage.           *)

BytesIdle ==
    /\ pass = 0
    /\ cleaned = <<>>
    /\ itemsRemoved = <<>>
    /\ warning = NoWarning
    /\ cleaned2 = <<>>
    /\ itemsRemoved2 = <<>>

\* A message { file, options } has arrived.
Init ==
    /\ file \in SampleFiles
    /\ options \in Options
    /\ pdfBytes = <<>>
    /\ pc = "arrayBuffer"
    /\ pdfDoc = <<>>
    /\ docItems = <<>>
    /\ warnings = <<>>
    /\ savedPdfBytes = <<>>
    /\ savedBuffer = <<>>
    /\ pdfLibError = NoError
    /\ error = NoError
    /\ result = <<>>
    /\ posted = <<>>
    /\ BytesIdle
    /\ UploaderIdle

\* const arrayBuffer = await file.arrayBuffer(): the bytes, or a rejection
\* that the handler's catch receives.
ReadFile ==
    /\ pc = "arrayBuffer"
    /\ \/ /\ pdfBytes' = file.bytes
          /\ pc' = "load"
          /\ UNCHANGED error
       \/ /\ error' = "file could not be read"
          /\ pc' = "catch"
          /\ UNCHANGED pdfBytes
    /\ UNCHANGED <<options, bytesVars, uploaderVars, file, pdfDoc, docItems, warnings,
                   savedPdfBytes, savedBuffer, pdfLibError, result, posted>>

\* await PDFDocument.load(pdfBytes): a document, or an error that cleanPDF's
\* catch receives.
LoadDocument ==
    /\ pc = "load"
    /\ \/ /\ \E d \in 1..Len(SampleDocs), broken \in BrokenSites :
               pdfDoc' = [catalog |-> SampleDocs[d].catalog,
                          pages |-> SampleDocs[d].pages,
                          broken |-> broken]
          /\ pc' = "catalog"
          /\ UNCHANGED pdfLibError
       \/ /\ pdfLibError' = "no PDF header"
          /\ pc' = "fallback"
          /\ UNCHANGED pdfDoc
    /\ UNCHANGED <<pdfBytes, options, bytesVars, uploaderVars, file, docItems, warnings,
                   savedPdfBytes, savedBuffer, error, result, posted>>

\* STEPS 1 to 4 of cleanPDF.
CleanCatalogEntries ==
    /\ pc = "catalog"
    /\ \E r \in {CleanCatalog(pdfDoc.catalog, options, pdfDoc.broken)} :
         /\ pdfDoc' = [pdfDoc EXCEPT !.catalog = r.catalog]
         /\ docItems' = docItems \o r.items
    /\ pc' = "pages"
    /\ UNCHANGED <<pdfBytes, options, bytesVars, uploaderVars, file, warnings,
                   savedPdfBytes, savedBuffer, pdfLibError, error, result, posted>>

\* STEP 5 of cleanPDF: the pages, or the warning when getPages() throws.
CleanAllPages ==
    /\ pc = "pages"
    /\ IF pdfDoc.broken.site = "getPages"
       THEN /\ warnings' = Append(warnings,
                                  "Could not process all pages: " \o "bad page tree")
            /\ UNCHANGED <<pdfDoc, docItems>>
       ELSE /\ \E r \in {CleanPages(pdfDoc.pages, options, pdfDoc.broken)} :
                 /\ pdfDoc' = [pdfDoc EXCEPT !.pages = r.pages]
                 /\ docItems' = docItems \o r.items
            /\ UNCHANGED warnings
    /\ pc' = "save"
    /\ UNCHANGED <<pdfBytes, options, bytesVars, uploaderVars, file, savedPdfBytes, savedBuffer,
                   pdfLibError, error, result, posted>>

\* STEP 6, await pdfDoc.save(): the bytes, or an error that cleanPDF's
\* catch receives.
SaveDocument ==
    /\ pc = "save"
    /\ \/ /\ savedPdfBytes' \in SavedSamples
          /\ savedBuffer' = savedPdfBytes'
          /\ pc' = "cleanup"
          /\ UNCHANGED pdfLibError
       \/ /\ pdfLibError' = "document could not be saved"
          /\ pc' = "fallback"
          /\ UNCHANGED <<savedPdfBytes, savedBuffer>>
    /\ UNCHANGED <<pdfBytes, options, bytesVars, uploaderVars, file, pdfDoc, docItems,
                   warnings, error, result, posted>>

\* STEP 7 and the return of the structural path.
ReturnSaved ==
    /\ pc = "cleanup"
    /\ \E r \in {IF options.removeLinks THEN FinalCleanup(savedPdfBytes)
                 ELSE [savedPdfBytes |-> savedPdfBytes,
                       given |-> savedPdfBytes, items |-> <<>>]} :
         /\ savedPdfBytes' = r.savedPdfBytes
         /\ savedBuffer' = r.given
         /\ docItems' = docItems \o r.items
         /\ result' = [blob |-> r.savedPdfBytes,
                       itemsRemoved |-> docItems \o r.items,
                       warning |-> IF Len(warnings) > 0 THEN Join(warnings)
                                   ELSE NoWarning]
    /\ pc' = "post"
    /\ UNCHANGED <<pdfBytes, options, bytesVars, uploaderVars, file, pdfDoc, warnings,
                   pdfLibError, error, posted>>

\* catch (pdfLibError): the byte-level sanitizer on the bytes cleanPDF was
\* given, and its return; or an error of the sanitizer itself (the string
\* or the arrays it builds do not fit), which leaves cleanPDF.
Fallback ==
    /\ pc = "fallback"
    /\ \/ /\ \E r \in {cleanPDFBytes(pdfBytes, options)} :
               /\ result' = FallbackReturn(r, pdfLibError)
               /\ pdfBytes' = GivenAfterWrites(pdfBytes, r.cleaned)
          /\ pc' = "post"
          /\ UNCHANGED error
       \/ /\ error' = "out of memory"
          /\ pc' = "catch"
          /\ UNCHANGED <<result, pdfBytes>>
    /\ UNCHANGED <<options, bytesVars, uploaderVars, file, pdfDoc, docItems,
                   warnings, savedPdfBytes, savedBuffer, pdfLibError, posted>>

\* self.postMessage of cleanPDF's result.
PostResult ==
    /\ pc = "post"
    /\ posted' = Append(posted, [success |-> TRUE,
                                 blob |-> result.blob,
                                 itemsRemoved |-> result.itemsRemoved,
                                 warning |-> result.warning])
    /\ pc' = "done"
    /\ UNCHANGED <<pdfBytes, options, bytesVars, uploaderVars, file, pdfDoc, docItems,
                   warnings, savedPdfBytes, savedBuffer, pdfLibError, error, result>>

\* catch (error) of self.onmessage: the file is read again and posted as it
\* is; when this arrayBuffer() rejects, the rejection leaves the handler and
\* nothing is posted.
CatchError ==
    /\ pc = "catch"
    /\ \/ /\ posted' = Append(posted, FailureResponse(file.bytes, error))
          /\ pc' = "done"
       \/ /\ pc' = "rejected"
          /\ UNCHANGED posted
    /\ UNCHANGED <<pdfBytes, options, bytesVars, uploaderVars, file, pdfDoc, docItems,
                   warnings, savedPdfBytes, savedBuffer, pdfLibError, error, result>>

Next ==
    \/ ReadFile
    \/ LoadDocument
    \/ CleanCatalogEntries
    \/ CleanAllPages
    \/ SaveDocument
    \/ ReturnSaved
    \/ Fallback
    \/ PostResult
    \/ CatchError

Spec == Init /\ [][Next]_vars

---------------------------------------------------------------------------
(* The uploader, src/src/components/PDFUploader.tsx: the selected files,    *)
(* processPDF and the handlers of the workers it starts, one per file.      *)
(* Every handler is one task of the page's event loop; the continuation of  *)
(* processPDF after `await Promise.all` runs in the microtasks of the task  *)
(* that settles the last promise, before any other handler.                 *)

\* The most files selected at a time.
MaxFiles == 2

\* The most calls of processPDF in a behaviour.
MaxBatches == 2

\* progress is kept in units of 1 / ProgressScale, so that 100 / files.length
\* is a whole number of units for 1, 2, 3 and 4 files.
ProgressScale == 3

\* The File objects the user can pick.
Pdfs ==
    { [name |-> "a.pdf", size |-> 1],
      [name |-> "b.pdf", size |-> 1],
      [name |-> "c.pdf", size |-> 2] }

\* What a file dialog or a drop hands over: PDF files, each one once.
Selections ==
    { s \in UNION { [1..k -> Pdfs] : k \in 1..MaxFiles } :
        \A i, j \in 1..Len(s) : (i # j) => (s[i] # s[j]) }

\* processPDF's workerPromises as they are created: a worker per file, its
\* promise pending, and the promise of Promise.all pending.  `files` is the
\* array the call closed over, `arrival` the order the workers answered in.
NewBatch(fs) ==
    [files   |-> fs,
     workers |-> [i \in 1..Len(fs) |-> "running"],
     arrival |-> <<>>,
     all     |-> "pending"]

\* resolve({ name: file.name, url, itemsRemoved }) in the worker of file i of
\* batch b: the object URL is a new one for each response.
ResolveValue(batch, b, i) ==
    [name |-> batch.files[i].name, url |-> << b, i >>]

\* A variant of PromiseAll that hands the values over in the order the
\* workers answered in.
PromiseAllByArrival(batch, b) ==
    [k \in 1..Len(batch.arrival) |-> ResolveValue(batch, b, batch.arrival[k])]

\* const results = await Promise.all(workerPromises): the values in the
\* order of the promises, which is the order of files.
PromiseAll(batch, b) ==
    [i \in 1..Len(batch.files) |-> ResolveValue(batch, b, i)]

\* Every promise of the batch is fulfilled.
AllResponded(batch) ==
    \A k \in 1..Len(batch.workers) : batch.workers[k] = "responded"

InitUploader ==
    /\ UploaderIdle
    /\ pdfBytes = <<>>
    /\ options = NoOptions
    /\ BytesIdle
    /\ WorkerIdle

\* handleFileSelect, and handleDrop which does the same: the input and the
\* drop zone are rendered while no file is selected.
handleFileSelect ==
    /\ files = <<>>
    /\ \E selectedFiles \in Selections : files' = selectedFiles
    /\ cleanedPdfUrls' = <<>>
    /\ UNCHANGED <<processing, progress, batches, sanitizerVars>>

\* addMoreFiles with at least one file that is not in the list yet (with
\* none the state stays as it is): rendered while nothing is processed or
\* published.
addMoreFiles ==
    /\ files # <<>>
    /\ ~processing
    /\ cleanedPdfUrls = <<>>
    /\ \E selectedFiles \in Selections :
         \E newFiles \in
              {SelectSeq(selectedFiles,
                         LAMBDA newFile :
                            ~\E k \in 1..Len(files) :
                                /\ files[k].name = newFile.name
                                /\ files[k].size = newFile.size)} :
            /\ Len(newFiles) > 0
            /\ Len(files) + Len(newFiles) <= MaxFiles
            /\ files' = files \o newFiles
    /\ cleanedPdfUrls' = <<>>
    /\ UNCHANGED <<processing, progress, batches, sanitizerVars>>

\* removeFile(index): rendered while nothing is processed or published.
removeFile ==
    /\ ~processing
    /\ cleanedPdfUrls = <<>>
    /\ \E index \in 1..Len(files) :
         files' = [k \in 1..(Len(files) - 1) |->
                     IF k < index THEN files[k] ELSE files[k + 1]]
    /\ UNCHANGED <<processing, progress, cleanedPdfUrls, batches, sanitizerVars>>

\* reset: rendered while files are selected and nothing is processed.
reset ==
    /\ files # <<>>
    /\ ~processing
    /\ files' = <<>>
    /\ cleanedPdfUrls' = <<>>
    /\ UNCHANGED <<processing, progress, batches, sanitizerVars>>

\* processPDF up to its await: the button is rendered while nothing is
\* processed or published.
processPDF ==
    /\ files # <<>>
    /\ ~processing
    /\ cleanedPdfUrls = <<>>
    /\ Len(batches) < MaxBatches
    /\ processing' = TRUE
    /\ progress' = 0
    /\ batches' = Append(batches, NewBatch(files))
    /\ UNCHANGED <<files, cleanedPdfUrls, sanitizerVars>>

\* worker.onmessage for file i of batch b; the worker posts success: true
\* and a blob in every message.  The promise is resolved, the worker
\* terminated and the progress raised; when this fulfils Promise.all,
\* processPDF goes on: the results are published and the finally block
\* resets processing and progress.
WorkerOnMessage ==
    \E b \in 1..Len(batches) :
    \E i \in 1..Len(batches[b].files) :
       /\ batches[b].workers[i] = "running"
       /\ \E batch \in {[batches[b] EXCEPT !.workers[i] = "responded",
                                            !.arrival = Append(@, i)]} :
            IF batch.all = "pending" /\ AllResponded(batch)
            THEN /\ batches' = [batches EXCEPT ![b] = [batch EXCEPT !.all = "fulfilled"]]
                 /\ cleanedPdfUrls' = PromiseAll(batch, b)
                 /\ processing' = FALSE
                 /\ progress' = 0
            ELSE /\ batches' = [batches EXCEPT ![b] = batch]
                 /\ progress' = progress + (100 * ProgressScale) \div Len(batch.files)
                 /\ UNCHANGED <<cleanedPdfUrls, processing>>
       /\ UNCHANGED <<files, sanitizerVars>>

\* worker.onerror for file i of batch b: the promise is rejected and the
\* worker terminated; the first rejection of a batch rejects Promise.all,
\* and processPDF goes through its catch and finally blocks.  The other
\* workers of the batch keep running.
WorkerOnError ==
    \E b \in 1..Len(batches) :
    \E i \in 1..Len(batches[b].files) :
       /\ batches[b].workers[i] = "running"
       /\ \E batch \in {[batches[b] EXCEPT !.workers[i] = "errored"]} :
            IF batch.all = "pending"
            THEN /\ batches' = [batches EXCEPT ![b] = [batch EXCEPT !.all = "rejected"]]
                 /\ processing' = FALSE
                 /\ progress' = 0
            ELSE /\ batches' = [batches EXCEPT ![b] = batch]
                 /\ UNCHANGED <<processing, progress>>
       /\ UNCHANGED <<files, cleanedPdfUrls, sanitizerVars>>

NextUploader ==
    \/ handleFileSelect
    \/ addMoreFiles
    \/ removeFile
    \/ reset
    \/ processPDF
    \/ WorkerOnMessage
    \/ WorkerOnError

SpecUploader == InitUploader /\ [][NextUploader]_vars

---------------------------------------------------------------------------
(* Properties of the byte-level sanitizer (SpecBytes, SpecTwice).          *)

AllFalse ==
    [removeLinks |-> FALSE, removeForms |-> FALSE, removeJavascript |-> FALSE]

\* The elements of a sequence.
Range(f) == { f[k] : k \in DOMAIN f }

\* An http:// or https:// URL stands at position i of s.
UrlAt(s, i) ==
    /\ LitAt(s, i, <<"h","t","t","p",":","/","/">>) \/ LitAt(s, i, <<"h","t","t","p","s",":","/","/">>)
    /\ urlPattern(s, i) # 0

\* The position after the namespace declaration xmlns="http://..." or
\* xmlns:X="http://..." that starts at position i of s (0: none starts there).
XmlnsDeclEnd(s, i) ==
    IF ~LitAt(s, i, <<"x","m","l","n","s">>) THEN 0
    ELSE LET p == IF LitAt(s, i + 5, <<":">>)
                  THEN SkipNotIn(s, i + 6, WS \cup Quotes \cup {"=", "<", ">"})
                  ELSE i + 5
             named == LitAt(s, i + 5, <<":">>) => p > i + 6
             q == SkipNotIn(s, p + 9, {"\""})
         IN  IF named /\ LitAt(s, p, <<"=","\"","h","t","t","p",":","/","/">>) /\ q <= Len(s)
             THEN q + 1 ELSE 0

\* C1: for every input and every combination of the options, the buffer
\* cleanPDFBytes returns is as long as its input, whatever rules fire and
\* however their matches overlap.
C1_LengthPreserved ==
    pass >= 1 => Len(cleaned) = Len(pdfBytes)

\* C1 at work: a submit tag with a target URL, rewritten by the XFA URL rule,
\* blanked by the submit tag rule and matched again by the URL rule.
C1_Witness ==
    /\ pass = 1
    /\ options.removeLinks /\ options.removeForms
    /\ "Removed XFA URL (byte-level)" \in Range(itemsRemoved)
    /\ "Removed XDP submit tag (byte-level)" \in Range(itemsRemoved)
    /\ "Removed 1 external URLs (byte-level)" \in Range(itemsRemoved)
    /\ cleaned # pdfBytes
    /\ Len(cleaned) = Len(pdfBytes)

\* C2: every byte at a position inside a Binary (unclassified) stream region
\* of the input is the same in the byte-level output, also when a rule's
\* match starts outside the region and runs into it.
C2_BinaryRegionUntouched ==
    pass >= 1 =>
        LET ranges == findProtectedStreams(pdfBytes)
        IN  \A i \in 1..Len(pdfBytes) :
                isProtected(i, ranges) => cleaned[i] = pdfBytes[i]

\* C3: with the three options false the removal list is empty and the output
\* bytes are the input bytes.
C3_AllFalseIsNoOp ==
    (pass >= 1 /\ options = AllFalse) =>
        (itemsRemoved = <<>> /\ cleaned = pdfBytes)

\* C4: the byte-level sanitizer run on its own output with the same options
\* returns that output unchanged.
C4_Idempotent ==
    pass = 2 => cleaned2 = cleaned

\* C5: with removeLinks true, every namespace declaration xmlns="http://..."
\* or xmlns:X="http://..." of the input stands byte for byte at the same
\* position of the output, whatever the other options are.
C5_NamespaceDeclarationsKept ==
    (pass >= 1 /\ options.removeLinks) =>
        \A i \in 1..Len(pdfBytes) :
            LET e == XmlnsDeclEnd(pdfBytes, i)
            IN  e # 0 => SubSeq(cleaned, i, e - 1) = SubSeq(pdfBytes, i, e - 1)

\* C6: with removeLinks true, every http:// or https:// URL left in the
\* output starts inside a Binary stream region or has xmlns= or xmlns:
\* within the 30 bytes before it (regions and markers taken from the input
\* or from the output, whichever excuses the URL).
C6_NoUrlLeft ==
    (pass >= 1 /\ options.removeLinks) =>
        LET before == findProtectedStreams(pdfBytes)
            after  == findProtectedStreams(cleaned)
        IN  \A i \in 1..Len(cleaned) :
                UrlAt(cleaned, i) =>
                    \/ isProtected(i, before)
                    \/ isProtected(i, after)
                    \/ IsXmlnsUrl(pdfBytes, i)
                    \/ IsXmlnsUrl(cleaned, i)

---------------------------------------------------------------------------
(* Properties of the worker (Spec).                                        *)

\* The descriptors the structural path pushes.
StructuralDescriptors ==
    { "Removed OpenAction", "Removed document Additional Actions",
      "Removed JavaScript name tree", "Removed AcroForm",
      "Removed page Additional Actions", "Removed external link annotation",
      "Removed link annotation", "Removed form widget annotation" }

\* C7: when cleanPDF throws out of its byte-level fallback, the response
\* carries the bytes of the original file, an empty removal list and the
\* warning "Could not clean PDF: <cause>".
C7_TotalFailureResponse ==
    (pdfLibError # NoError /\ error # NoError /\ Len(posted) > 0) =>
        /\ posted[1].blob = file.bytes
        /\ posted[1].itemsRemoved = <<>>
        /\ posted[1].warning = "Could not clean PDF: " \o error

\* C7 at work: the save failed after the structural path had removed
\* something, the fallback failed too, and the response was posted.
C7_Witness ==
    /\ pc = "done"
    /\ pdfLibError = "document could not be saved"
    /\ error = "out of memory"
    /\ docItems # <<>>
    /\ Len(posted) = 1
    /\ posted[1].blob = file.bytes
    /\ posted[1].itemsRemoved = <<>>

\* C8: the handler lets no exception escape and posts exactly one response
\* for its message, also when reading the file fails or the failure is in
\* the handler's own error path.
C8_ExactlyOneResponse ==
    /\ pc # "rejected"
    /\ Len(posted) <= 1
    /\ pc = "done" => Len(posted) = 1

\* C9: when the structural path fails at load or at save, what cleanPDF
\* returns is the byte-level sanitizer's result on the original bytes: its
\* removal list holds no structural descriptor, and the warning carries the
\* message of the failure.
C9_FallbackResult ==
    (pdfLibError # NoError /\ pc \in {"post", "done"} /\ error = NoError) =>
        LET r == cleanPDFBytes(file.bytes, options)
        IN  /\ result.blob = r.cleaned
            /\ result.itemsRemoved = r.itemsRemoved
            /\ Range(result.itemsRemoved) \cap StructuralDescriptors = {}
            /\ result.warning = "Used byte-level fallback: " \o pdfLibError

\* C9 at work: the save failed after structural removals were recorded, and
\* the byte-level sanitizer removed something from the original bytes.
C9_Witness ==
    /\ pc = "done"
    /\ pdfLibError = "document could not be saved"
    /\ error = NoError
    /\ docItems # <<>>
    /\ result.itemsRemoved # <<>>
    /\ result.blob # file.bytes
    /\ posted[1].itemsRemoved = result.itemsRemoved

---------------------------------------------------------------------------
(* Further properties of the byte-level sanitizer (SpecBytes).             *)

\* C11: every entry of the removal report stands for at least one byte that
\* differs between input and output; in particular a report with an entry
\* comes with an output that is not the input.
C11_ReportFaithful ==
    (pass >= 1 /\ itemsRemoved # <<>>) => cleaned # pdfBytes

---------------------------------------------------------------------------
(* Properties of the structural path (Spec): what the steps of cleanPDF    *)
(* make of the document PDFDocument.load returned.                         *)

\* An entry as the PDF reader sees it: the object behind a reference.
Resolved(value) == IF isPDFRef(value) THEN safeLookup(value) ELSE value

\* The entries of a page's /Annots: the elements of the array, given
\* directly or by reference, or the one annotation a reference leads to.
AnnotEntries(node) ==
    LET raw == Get(node, "Annots")
        annots == Resolved(raw)
    IN  IF isPDFArray(annots) THEN annots.array
        ELSE IF isPDFRef(raw) /\ isPDFDict(annots) THEN << raw >>
        ELSE <<>>

\* The references of a page's /Annots after cleanPDF rebuilt it.
RebuiltAnnots(node) ==
    LET annots == Get(node, "Annots")
    IN  IF isPDFArray(annots) THEN annots.array ELSE <<>>

\* The reference under which an entry is kept: itself, or a new one for a
\* dictionary written directly in the array.
KeptAs(entry) == IF isPDFRef(entry) THEN entry ELSE PDFRef(entry)

HasUrlScheme(text) ==
    \/ IncludesIn(text, 1, Len(text), <<"h","t","t","p",":","/","/">>)
    \/ IncludesIn(text, 1, Len(text), <<"h","t","t","p","s",":","/","/">>)
    \/ IncludesIn(text, 1, Len(text), <<"f","t","p",":","/","/">>)

\* A Link annotation with an action /S /GoTo whose destination names no
\* http://, https:// or ftp:// address.
IsInternalGoToLink(entry) ==
    LET annot == Resolved(entry)
        action == Resolved(Get(annot, "A"))
    IN  /\ isPDFDict(annot)
        /\ NameOf(Get(annot, "Subtype")) = "/Link"
        /\ isPDFDict(action)
        /\ NameOf(Get(action, "S")) = "/GoTo"
        /\ ~HasUrlScheme(TextOf(Get(action, "D")))

\* The per-page pass of cleanPDF ran to its end on a document that makes
\* no call of pdf-lib throw.
PagesCleaned ==
    /\ pc = "pages"
    /\ pc' = "save"
    /\ pdfDoc.broken = NotBroken

\* C12: with removeLinks true, the per-page pass keeps every Link annotation
\* with an internal /GoTo action in the page's rebuilt /Annots and reports
\* no link removal for it, whether the page's /Annots is an array or a
\* reference to one.
C12_InternalGoToKept ==
    [][(PagesCleaned /\ options.removeLinks) =>
         \A i \in 1..Len(pdfDoc.pages) :
            LET entries == AnnotEntries(pdfDoc.pages[i])
                links == {j \in 1..Len(entries) : IsInternalGoToLink(entries[j])}
            IN  links # {} =>
                  /\ \A j \in links :
                        KeptAs(entries[j]) \in Range(RebuiltAnnots(pdfDoc'.pages[i]))
                  /\ "Removed link annotation" \notin Range(docItems')]_vars

\* A Link annotation whose action, written in the annotation or behind a
\* reference, has one of the types that always leave the document.
IsExternalLink(entry) ==
    LET annot == Resolved(entry)
        action == Resolved(Get(annot, "A"))
    IN  /\ isPDFDict(annot)
        /\ NameOf(Get(annot, "Subtype")) = "/Link"
        /\ isPDFDict(action)
        /\ NameOf(Get(action, "S")) \in ExternalActions

\* C13: with removeLinks true, after the per-page pass no page's /Annots
\* holds a Link annotation whose action has /S in /URI, /Launch, /GoToR,
\* /GoToE, /SubmitForm, /ImportData, whether /A is a dictionary or a
\* reference to one.
C13_NoExternalLinkLeft ==
    (pc \in {"save", "cleanup"} /\ pdfDoc.broken = NotBroken /\ options.removeLinks) =>
        \A i \in 1..Len(pdfDoc.pages) :
            \A entry \in Range(RebuiltAnnots(pdfDoc.pages[i])) :
                ~IsExternalLink(entry)

\* An entry the options allow the pass to drop: a Link with removeLinks, a
\* Widget with removeForms.
MayDrop(entry, o) ==
    LET annot == Resolved(entry)
        subtypeName == IF isPDFDict(annot) THEN NameOf(Get(annot, "Subtype"))
                       ELSE "undefined"
    IN  \/ o.removeLinks /\ subtypeName = "/Link"
        \/ o.removeForms /\ subtypeName = "/Widget"

\* C14: the per-page pass leaves every entry of a page's /Annots that is
\* neither a Link under removeLinks nor a Widget under removeForms in the
\* rebuilt /Annots, under the same reference and in the same order, also
\* entries that resolve to no dictionary and /Annots given by reference.
C14_OtherAnnotationsKept ==
    [][PagesCleaned =>
         \A i \in 1..Len(pdfDoc.pages) :
            LET others == SelectSeq(AnnotEntries(pdfDoc.pages[i]),
                                    LAMBDA e : ~MayDrop(e, options))
                must == [k \in 1..Len(others) |-> KeptAs(others[k])]
            IN  SelectSeq(RebuiltAnnots(pdfDoc'.pages[i]),
                          LAMBDA r : r \in Range(must)) = must]_vars

\* The cases in which the OpenAction entry is to go: (a) a dictionary with
\* /S /JavaScript under removeJavascript, (b) a dictionary with an external
\* /S under removeLinks, (c) a reference under either option.
OpenActionIsToGo(openAction, o) ==
    \/ /\ isPDFDict(openAction)
       /\ NameOf(Get(openAction, "S")) = "/JavaScript"
       /\ o.removeJavascript
    \/ /\ isPDFDict(openAction)
       /\ NameOf(Get(openAction, "S")) \in ExternalActions
       /\ o.removeLinks
    \/ /\ isPDFRef(openAction)
       /\ o.removeLinks \/ o.removeJavascript

\* C15: the catalog step removes the OpenAction entry and reports "Removed
\* OpenAction" exactly in the cases (a), (b) and (c); in every other case
\* the entry stays as it is and nothing is reported; no later step of the
\* structural path touches the catalog.
C15_OpenActionRemovedExactlyWhen ==
    [][ /\ (pc = "catalog" /\ pc' = "pages" /\ pdfDoc.broken = NotBroken) =>
             LET openAction == Get(pdfDoc.catalog, "OpenAction")
                 after == Get(pdfDoc'.catalog, "OpenAction")
                 reported == "Removed OpenAction" \in Range(docItems')
             IN  IF Truthy(openAction) /\ OpenActionIsToGo(openAction, options)
                 THEN ~Truthy(after) /\ reported
                 ELSE after = openAction /\ ~reported
        /\ (pc \in {"pages", "save", "cleanup"}
              /\ pc' \in {"save", "cleanup", "post"}) =>
             (pdfDoc'.catalog = pdfDoc.catalog) ]_vars

\* C15 at work: an OpenAction running a script was removed under
\* removeJavascript alone, and the pages and the save came after it.
C15_Witness ==
    /\ pc = "cleanup"
    /\ pdfDoc.broken = NotBroken
    /\ options.removeJavascript /\ ~options.removeLinks
    /\ ~Truthy(Get(pdfDoc.catalog, "OpenAction"))
    /\ Truthy(Get(pdfDoc.pages[1], "Annots"))
    /\ docItems[1] = "Removed OpenAction"

---------------------------------------------------------------------------
(* Spans the byte-level rules blank (SpecBytes).                           *)

\* The unprotected matches in the input of the pattern whose match at i
\* ends at ends[i].
InputMatches(ends) ==
    Unprotected(MatchesOf(pdfBytes, ends), findProtectedStreams(pdfBytes))

\* Every byte of every span of ms is a space in the output.
BlankInOutput(ms) ==
    \A k \in 1..Len(ms) :
        \A p \in ms[k].index..(ms[k].end - 1) : cleaned[p] = " "

\* C16: with removeLinks true, every byte of every unprotected match of the
\* UNC rule is a space in the output, and the output is as long as the
\* input.
C16_UncSpanBlanked ==
    (pass >= 1 /\ options.removeLinks) =>
        /\ BlankInOutput(InputMatches([i \in 1..Len(pdfBytes) |->
                                         uncUrlPattern(pdfBytes, i)]))
        /\ Len(cleaned) = Len(pdfBytes)

\* C17: with removeForms true, whatever the other options are, every byte
\* of every unprotected <submit ...>, </submit>, <xdp:submit ...> and
\* </xdp:submit> tag of the input is a space in the output, also of a tag
\* that carries a target or href URL.
C17_SubmitTagsBlanked ==
    (pass >= 1 /\ options.removeForms) =>
        LET n == Len(pdfBytes)
        IN  /\ BlankInOutput(InputMatches(
                  [i \in 1..n |-> submitOpenPattern(pdfBytes, i, SubmitTag)]))
            /\ BlankInOutput(InputMatches(
                  [i \in 1..n |-> submitClosePattern(pdfBytes, i, <<"<","/","s","u","b","m","i","t",">">>)]))
            /\ BlankInOutput(InputMatches(
                  [i \in 1..n |-> submitOpenPattern(pdfBytes, i, XdpSubmitTag)]))
            /\ BlankInOutput(InputMatches(
                  [i \in 1..n |-> submitClosePattern(pdfBytes, i, <<"<","/","x","d","p",":","s","u","b","m","i","t",">">>)]))

\* C18: for every option set, every byte of every unprotected match of the
\* OpenAction rule is a space in the output: no later rule writes other
\* bytes back into the span.
C18_OpenActionSpanBlanked ==
    pass >= 1 =>
        BlankInOutput(InputMatches([i \in 1..Len(pdfBytes) |->
                                      openActionPattern(pdfBytes, i)]))

---------------------------------------------------------------------------
(* Properties of findProtectedStreams (SpecBytes).                         *)

\* A stream-opening keyword stands at position i of s: the word stream and
\* its end of line, and not the last six letters of an endstream.
StreamKeywordAt(s, i) ==
    /\ StreamPatternEnd(s, i) # 0
    /\ ~LitAt(s, i - 3, <<"e","n","d","s","t","r","e","a","m">>)

\* Position p of s lies after an endstream keyword and before the next
\* stream-opening keyword, which exists.
BetweenStreams(s, p) ==
    \E e \in 1..p, j \in (p + 1)..Len(s) :
        /\ LitAt(s, e, <<"e","n","d","s","t","r","e","a","m">>)
        /\ e + 9 <= p
        /\ StreamKeywordAt(s, j)
        /\ \A k \in (e + 9)..p : ~StreamKeywordAt(s, k)

\* C19: every region of findProtectedStreams starts after a stream-opening
\* keyword and ends at the next endstream, so a byte between an endstream
\* keyword and the next stream-opening keyword lies in no region, is not
\* protected, and an /AA dictionary that starts there is blanked when
\* removeLinks or removeJavascript is set.
C19_NoRegionBetweenStreams ==
    pass >= 1 =>
        LET ranges == findProtectedStreams(pdfBytes)
            aa == MatchesOf(pdfBytes, [i \in 1..Len(pdfBytes) |->
                                         aaPattern(pdfBytes, i)])
        IN  /\ \A p \in 1..Len(pdfBytes) :
                   BetweenStreams(pdfBytes, p) =>
                       /\ \A k \in 1..Len(ranges) :
                              ~(p >= ranges[k].start /\ p < ranges[k].end)
                       /\ ~isProtected(p, ranges)
            /\ (options.removeLinks \/ options.removeJavascript) =>
                   BlankInOutput(SelectSeq(aa,
                       LAMBDA m : BetweenStreams(pdfBytes, m.index)))

\* C20: the regions findProtectedStreams returns are pairwise disjoint and
\* in increasing order: each ends at or before the start of the next, also
\* when two stream keywords come before the same endstream.
C20_RegionsDisjoint ==
    pass >= 1 =>
        LET ranges == findProtectedStreams(pdfBytes)
        IN  \A k \in 1..Len(ranges), l \in 1..Len(ranges) :
                k < l => ranges[k].end <= ranges[l].start

---------------------------------------------------------------------------
(* The classification of stream regions (SpecStreams).                     *)

\* The text of s at the positions lo..hi begins, after white space, with
\* lit.
BeginsWith(s, lo, hi, lit) ==
    \E p \in lo..(hi - Len(lit) + 1) :
        /\ LitAt(s, p, lit)
        /\ \A q \in lo..(p - 1) : s[q] \in WS

\* The class of the region [start, end) of s: XML, Metadata or Binary.
RegionClass(s, start, end) ==
    LET lo == Max({1, start - 500})
        hi == start - 1
        ce == Min({start + 500, end}) - 1
    IN  IF \/ IncludesIn(s, lo, hi, <<"/","S","u","b","t","y","p","e"," ","/","X","M","L">>)
           \/ IncludesIn(s, lo, hi, <<"/","X","F","A">>)
           \/ IncludesIn(s, lo, hi, <<"/","A","c","r","o","F","o","r","m">>)
           \/ BeginsWith(s, start, ce, <<"<","?","x","m","l">>)
           \/ BeginsWith(s, start, ce, <<"<","x","d","p",":","x","d","p">>)
           \/ BeginsWith(s, start, ce, <<"<","t","e","m","p","l","a","t","e">>)
           \/ IncludesIn(s, start, ce, <<"<","x",":","x","m","p","m","e","t","a">>)
           \/ IncludesIn(s, start, ce, <<"<","r","d","f",":","R","D","F">>)
        THEN "XML"
        ELSE IF IncludesIn(s, lo, hi, <<"/","M","e","t","a","d","a","t","a">>) THEN "Metadata"
        ELSE "Binary"

\* C21: a region is XML when the 500 bytes before its start contain
\* /Subtype /XML, /XFA or /AcroForm or its first 500 content bytes begin
\* with <?xml, <xdp:xdp or <template or contain <x:xmpmeta or <rdf:RDF,
\* else Metadata when the 500 bytes before contain /Metadata, else Binary;
\* isProtected is true exactly at the offsets inside a Binary region.
C21_Classification ==
    pass >= 1 =>
        \A ranges \in {findProtectedStreams(pdfBytes)} :
        \A class \in {[k \in 1..Len(ranges) |->
                         RegionClass(pdfBytes, ranges[k].start, ranges[k].end)]} :
            /\ \A k \in 1..Len(ranges) :
                   ranges[k].subtype = (IF class[k] = "Binary" THEN "undefined"
                                        ELSE class[k])
            /\ \A p \in 1..Len(pdfBytes) :
                   isProtected(p, ranges) <=>
                       \E k \in 1..Len(ranges) :
                           /\ p >= ranges[k].start
                           /\ p < ranges[k].end
                           /\ class[k] = "Binary"

\* C21 at work: /XFA stands exactly 500 bytes before the content of a
\* stream, the region is XML and the URL at its start was rewritten.
C21_Witness ==
    /\ pass = 1
    /\ options.removeLinks
    /\ \E k \in 1..Len(findProtectedStreams(pdfBytes)) :
          LET r == findProtectedStreams(pdfBytes)[k]
          IN  /\ r.subtype = "XML"
              /\ LitAt(pdfBytes, r.start - 500, <<"/","X","F","A">>)
              /\ LitAt(pdfBytes, r.start, <<"h","t","t","p",":","/","/","a">>)
              /\ LitAt(cleaned, r.start, <<"a","b","o","u","t",":","b","l">>)

---------------------------------------------------------------------------
(* Further properties of the byte-level rules (SpecBytes).                 *)

\* C22: for every action type T of the active set (all seven with
\* removeLinks, /JavaScript alone without) and every unprotected /S T of
\* the input, the span of T holds in the output the whole name /Next and
\* then spaces: the replacement is never written cut short.
C22_NextWrittenWhole ==
    pass >= 1 =>
        \A a \in (IF options.removeLinks THEN 1..Len(AllActionTypes)
                  ELSE {Len(AllActionTypes)}) :
            \A ms \in {InputMatches([i \in 1..Len(pdfBytes) |->
                          actionPattern(pdfBytes, i, AllActionTypes[a])])} :
                \A k \in 1..Len(ms) :
                    LET t == ActionPrefixEnd(pdfBytes, ms[k].index)
                    IN  /\ LitAt(cleaned, t, <<"/","N","e","x","t">>)
                        /\ \A p \in (t + 5)..(ms[k].end - 1) : cleaned[p] = " "

\* C23: under every option set, an http:// or https:// URL of the input
\* with xmlns= or xmlns: within the 30 bytes before it has its bytes in the
\* output: no rule writes over it.
C23_XmlnsUrlUntouched ==
    pass >= 1 =>
        \A i \in 1..Len(pdfBytes) :
            (UrlAt(pdfBytes, i) /\ IsXmlnsUrl(pdfBytes, i)) =>
                SubSeq(cleaned, i, urlPattern(pdfBytes, i) - 1)
                    = SubSeq(pdfBytes, i, urlPattern(pdfBytes, i) - 1)

\* C24: when the byte-level sanitizer returns an empty removal list its
\* output is its input, byte for byte: no write goes without a descriptor.
C24_EmptyReportNoChange ==
    (pass >= 1 /\ itemsRemoved = <<>>) => cleaned = pdfBytes

\* C24 at work: removeLinks was set and the input holds a URL, yet every
\* rule passed it over (it is protected or follows an xmlns marker), the
\* report is empty and the output is the input.
C24_Witness ==
    /\ pass = 1
    /\ options.removeLinks
    /\ \E i \in 1..Len(pdfBytes) : UrlAt(pdfBytes, i)
    /\ itemsRemoved = <<>>
    /\ cleaned = pdfBytes

Without(seq, value) == SelectSeq(seq, LAMBDA x : x # value)

UrlWriteSpans(s) ==
    LET ranges == findProtectedStreams(s)
        writes == UncWrites(s, ranges) \o UrlWrites(s, ranges)
    IN  { << writes[k].index, writes[k].index + Len(writes[k].bytes) >> :
            k \in 1..Len(writes) }

\* The URL occurrences rewritten: the spans written over, a span that
\* begins inside another one being the same occurrence as that one.
RewrittenOccurrences(s) ==
    LET spans == UrlWriteSpans(s)
    IN  { sp \in spans :
            ~\E other \in spans :
                other # sp /\ other[1] <= sp[1] /\ sp[1] < other[2] }

\* The aggregate descriptors a byte-level run on s can push.
UrlDescriptors(s) ==
    { "Removed " \o ToString(n) \o " external URLs (byte-level)" : n \in 1..Len(s) }

\* C27: the byte-level report holds one aggregate descriptor "Removed N
\* external URLs" when a URL occurrence was rewritten and none otherwise,
\* and N is the number of occurrences rewritten, a URL matched by the UNC
\* rule and by the bare URL rule being one occurrence.
C27_UrlCountIsOccurrences ==
    (pass >= 1 /\ options.removeLinks) =>
        \A n \in {Cardinality(RewrittenOccurrences(pdfBytes))} :
            SelectSeq(itemsRemoved, LAMBDA item : item \in UrlDescriptors(pdfBytes))
                = IF n > 0
                  THEN << "Removed " \o ToString(n) \o " external URLs (byte-level)" >>
                  ELSE <<>>

\* C28: whatever order the workers answer in, published results are those
\* of one batch all of whose workers have answered, processing is over, and
\* result i carries the name of the selected file i, for every i.
C28_ResultsAligned ==
    cleanedPdfUrls # <<>> =>
        /\ ~processing
        /\ Len(cleanedPdfUrls) = Len(files)
        /\ \A i \in 1..Len(files) : cleanedPdfUrls[i].name = files[i].name
        /\ \E b \in 1..Len(batches) :
              /\ AllResponded(batches[b])
              /\ \A i \in 1..Len(cleanedPdfUrls) :
                    cleanedPdfUrls[i].url \in { << b, k >> : k \in 1..Len(batches[b].files) }

\* The results of two files are published, and the worker of the second
\* file answered first.
C28_Witness ==
    /\ Len(cleanedPdfUrls) = 2
    /\ \E b \in 1..Len(batches) :
          /\ batches[b].all = "fulfilled"
          /\ batches[b].arrival[1] = 2
          /\ cleanedPdfUrls[1].url = << b, 1 >>

\* C29: in every state of the uploader progress lies within 0..100, and it
\* is 0 while processing is false, late answers of a failed batch included.
C29_ProgressInRange ==
    /\ progress \in 0..(100 * ProgressScale)
    /\ ~processing => progress = 0
===========================================================================
